---- MODULE Spec2Model ----
(***************************************************************************)
(* Model of the mock RAOIDC provider (routes/dev/stub-login.tsx, the       *)
(* raoidc route) and of the relying-party session routes (/auth/login,     *)
(* /auth/callback, /auth/logout) of DTS-STN/react-router-template.         *)
(*                                                                         *)
(* Strings that end up inside a URL are sequences of chunks: a chunk is    *)
(* either one reserved character ("?", "&", "=", "#") or an opaque run of  *)
(* unreserved characters ("s1", "code", ...).  An optional value (what     *)
(* URLSearchParams.get / FormData.get return) is a record [p, v]: p says   *)
(* whether the parameter is present, v is its value.                       *)
(*                                                                         *)
(* Time is the event loop's clock in milliseconds.  A node:timers callback *)
(* runs once its delay has elapsed: the clock does not move past the due   *)
(* time of a pending timer, and at the due instant the callback and the    *)
(* request handlers may run in either order.                               *)
(***************************************************************************)
EXTENDS Integers, Sequences, FiniteSets, Bags, TLC

\* ---------------------------------------------------------------- bounds
MaxCodes == 2        \* number of distinct values randomString(32) can still return
TickMs == 15000      \* largest step of the clock
MaxTime == 45000     \* the clock stops here
MaxMinted == 5       \* number of tokens the provider can mint
MaxTimers == 3       \* number of setTimeout callbacks that can be pending
MaxLogins == 2       \* number of sign-in requests the relying party generates
MaxInflight == 2     \* number of /auth/callback requests handled at a time

\* ------------------------------------------------------ program constants
TimerDelay == 30000
ExpiresIn == 5 * 60
TokenLifetime == 20 * 60
NotBeforeSkew == 30
BAD_REQUEST == 400
NOT_FOUND == 404
FOUND == 302
OK == 200

AUTH_RAOIDC_CLIENT_ID == <<"00000000-0000-0000-0000-000000000000">>
AUTH_RAOIDC_ISSUER == "MOCK_RAOIDC"
JWT_BEARER == <<"urn:ietf:params:oauth:client-assertion-type:jwt-bearer">>
AUTHORIZATION_CODE == <<"authorization_code">>
ALLOWED_CALLBACKS == {<<"/", "auth/callback">>}
Origin == <<"http:", "/", "/", "localhost:3000">>

\* ------------------------------------------------------- optional strings
Some(v) == [p |-> TRUE, v |-> v]
Absent == [p |-> FALSE, v |-> <<>>]
\* JavaScript truthiness of a string | null | undefined
Truthy(x) == x.p /\ x.v # <<>>
\* strict equality of an optional string with a string
StrictEq(x, s) == x.p /\ x.v = s
\* what a template literal `${x}` produces
TemplateStr(x) == IF x.p THEN x.v ELSE <<"null">>

\* --------------------------------------------------------------- URL text
RECURSIVE IndexOf(_, _, _)
\* first position >= i of chunk ch in s, 0 when there is none
IndexOf(s, ch, i) ==
  IF i > Len(s) THEN 0
  ELSE IF s[i] = ch THEN i
  ELSE IndexOf(s, ch, i + 1)

\* the text before the first ch (all of s when there is none)
Before(s, ch) ==
  LET k == IndexOf(s, ch, 1) IN IF k = 0 THEN s ELSE SubSeq(s, 1, k - 1)

\* the text after the first ch (empty when there is none)
After(s, ch) ==
  LET k == IndexOf(s, ch, 1) IN IF k = 0 THEN <<>> ELSE SubSeq(s, k + 1, Len(s))

HasChunk(s, ch) == IndexOf(s, ch, 1) # 0

\* new URL(u): the fragment is cut off, then the query starts at the first "?"
UrlNoFragment(u) == Before(u, "#")
UrlBase(u) == Before(UrlNoFragment(u), "?")
UrlQuery(u) == After(UrlNoFragment(u), "?")

RECURSIVE QueryGet(_, _)
\* URLSearchParams.get(name) on a query string: the value of the first
\* name=value pair, pairs being separated by "&"
QueryGet(q, name) ==
  IF q = <<>> THEN Absent
  ELSE LET pair == Before(q, "&")
           rest == After(q, "&")
       IN IF pair # <<>> /\ Before(pair, "=") = name
          THEN Some(After(pair, "="))
          ELSE QueryGet(rest, name)

SearchParamsGet(u, name) == QueryGet(UrlQuery(u), name)

\* new URL(ref, origin).toString() for a reference that starts with "/": a
\* reference that starts with "//" names its own host and keeps only the
\* scheme of the origin, any other one is a path on the origin
UrlOf(ref, origin) ==
  IF Len(ref) >= 2 /\ ref[1] = "/" /\ ref[2] = "/"
  THEN <<origin[1]>> \o ref
  ELSE origin \o ref

\* new URL(u).origin: scheme and authority
UrlOrigin(u) == SubSeq(u, 1, 4)

getAllowedCallbacks(origin) == {UrlOf(cb, origin) : cb \in ALLOWED_CALLBACKS}


\* ------------------------------------------------------------------ state
VARIABLES
  flag,        \* serverEnvironment.AUTH_ENABLE_STUB_LOGIN
  tokenCache,  \* Map<authCode, {accessToken, idToken}>
  timers,      \* pending setTimeout callbacks: [code, due]
  now,         \* clock, ms
  usedCodes,   \* values randomString has returned so far
  minted,      \* number of tokens minted so far
  issued,      \* history: what /authorize stored under each code, and when
  consumed,    \* history: codes a /token response has handed out
  resp,        \* the last response of the provider, with its request
  session,     \* the browser session: loginState, authState, stubloginState
  inflight,    \* /auth/callback requests awaiting the userinfo answer (a bag)
  rpResp,      \* the last response of a relying-party route
  rpHist,      \* history: sign-in requests generated, LoginStates consumed,
               \* whether a logout has removed AuthState since the last login
  window,      \* the browser's window: adobeDataLayer and console
  call         \* the last call of an analytics function, with the window
               \* before and after it

provVars == <<tokenCache, timers, usedCodes, minted, issued, consumed, resp>>
rpVars == <<session, inflight, rpResp, rpHist>>
clientVars == <<window, call>>
vars == <<flag, now, provVars, rpVars, clientVars>>

\* randomString(32): a value that has not been returned before (the values
\* are named in the order they are drawn)
randomString(used) ==
  {<<ToString(i)>> : i \in {j \in 1..MaxCodes : Cardinality(used) = j - 1}}

\* ------------------------------------------------------------ token codec
generatePublicKeyId == "md5(AUTH_SERVER_PUBLIC_KEY)"

\* registered claims whose not-before lies after the issue time
BaseClaims_NotBeforeAhead(t) ==
  [aud |-> AUTH_RAOIDC_CLIENT_ID,
   exp |-> (t \div 1000) + TokenLifetime,
   iat |-> t \div 1000,
   iss |-> AUTH_RAOIDC_ISSUER,
   jti |-> "00000000-0000-0000-0000-000000000000",
   nbf |-> (t \div 1000) + NotBeforeSkew,
   sub |-> "00000000-0000-0000-0000-000000000000"]

\* the registered claims every SignJWT chain of the provider sets
BaseClaims(t) ==
  [aud |-> AUTH_RAOIDC_CLIENT_ID,
   exp |-> (t \div 1000) + TokenLifetime,
   iat |-> t \div 1000,
   iss |-> AUTH_RAOIDC_ISSUER,
   jti |-> "00000000-0000-0000-0000-000000000000",
   nbf |-> (t \div 1000) - NotBeforeSkew,
   sub |-> "00000000-0000-0000-0000-000000000000"]

\* an access token encrypted for the relying party
generateAccessToken_ClientKey(nonce, t, iv) ==
  [typ |-> "access", claims |-> BaseClaims(t), extra |-> <<>>,
   kid |-> generatePublicKeyId, encKey |-> "AUTH_CLIENT_PUBLIC_KEY", iv |-> iv]

\* a compact JWE: the signed claims, the signing key id, the key the content
\* key is wrapped under, and the fresh randomness of the encryption
generateAccessToken(nonce, t, iv) ==
  [typ |-> "access", claims |-> BaseClaims(t), extra |-> <<>>,
   kid |-> generatePublicKeyId, encKey |-> "AUTH_SERVER_PUBLIC_KEY", iv |-> iv]

generateIdToken(locale, nonce, t, iv) ==
  [typ |-> "id", claims |-> BaseClaims(t),
   extra |-> [locale |-> locale, nonce |-> nonce],
   kid |-> generatePublicKeyId, encKey |-> "AUTH_CLIENT_PUBLIC_KEY", iv |-> iv]

generateUserinfoToken(birthdate, locale, sin, t, iv) ==
  [typ |-> "userinfo", claims |-> BaseClaims(t),
   extra |-> [birthdate |-> birthdate, locale |-> locale, sin |-> sin],
   kid |-> generatePublicKeyId, encKey |-> "AUTH_CLIENT_PUBLIC_KEY", iv |-> iv]

\* ------------------------------------------------------------- Map, timers
\* a delete that empties the map when the key is missing
MapDelete_ClearOnMiss(m, k) ==
  IF k \in DOMAIN m THEN [c \in DOMAIN m \ {k} |-> m[c]] ELSE [c \in {} |-> 0]

MapSet(m, k, v) == [c \in DOMAIN m \cup {k} |-> IF c = k THEN v ELSE m[c]]
MapDelete(m, k) == [c \in DOMAIN m \ {k} |-> m[c]]
MapHas(m, k) == k \in DOMAIN m
EmptyMap == [c \in {} |-> 0]

\* a timer that runs after twice the delay asked for
setTimeout_Late(ts, code, delay) == ts \cup {[code |-> code, due |-> now + 2 * delay]}

\* setTimeout(() => tokenCache.delete(code), delay)
setTimeout(ts, code, delay) == ts \cup {[code |-> code, due |-> now + delay]}
TimerSlotFree == Cardinality(timers) < MaxTimers

\* ------------------------------------------------------------- responses
NoResp == [method |-> "none", ep |-> "none", status |-> 0]

JsonError(method, ep, req, err) ==
  [method |-> method, ep |-> ep, status |-> BAD_REQUEST, error |-> err, req |-> req]

NotFound(method, ep, req) ==
  [method |-> method, ep |-> ep, status |-> NOT_FOUND, error |-> "", req |-> req]

\* -------------------------------------------------------------- /authorize
\* the checks without the scope check
AuthorizeError_NoScope(q, origin) ==
  IF ~StrictEq(q.client_id, AUTH_RAOIDC_CLIENT_ID) THEN "invalid_client_id"
  ELSE IF ~Truthy(q.nonce) THEN "invalid_nonce"
  ELSE IF Truthy(q.redirect_uri) /\ q.redirect_uri.v \notin getAllowedCallbacks(origin)
    THEN "invalid_redirect_uri"
  ELSE IF ~Truthy(q.state) THEN "invalid_state"
  ELSE ""

\* the checks with the state check ahead of the others
AuthorizeError_StateFirst(q, origin) ==
  IF ~Truthy(q.state) THEN "invalid_state"
  ELSE IF ~StrictEq(q.client_id, AUTH_RAOIDC_CLIENT_ID) THEN "invalid_client_id"
  ELSE IF ~Truthy(q.nonce) THEN "invalid_nonce"
  ELSE IF Truthy(q.redirect_uri) /\ q.redirect_uri.v \notin getAllowedCallbacks(origin)
    THEN "invalid_redirect_uri"
  ELSE IF ~Truthy(q.scope) THEN "invalid_scope"
  ELSE ""

\* the validation checks of handleAuthorizeRequest, "" when all pass
AuthorizeError(q, origin) ==
  IF ~StrictEq(q.client_id, AUTH_RAOIDC_CLIENT_ID) THEN "invalid_client_id"
  ELSE IF ~Truthy(q.nonce) THEN "invalid_nonce"
  ELSE IF Truthy(q.redirect_uri) /\ q.redirect_uri.v \notin getAllowedCallbacks(origin)
    THEN "invalid_redirect_uri"
  ELSE IF ~Truthy(q.scope) THEN "invalid_scope"
  ELSE IF ~Truthy(q.state) THEN "invalid_state"
  ELSE ""

\* `${redirectUri}?code=${authCode}&state=${state}`
AuthorizeLocation(q, authCode) ==
  TemplateStr(q.redirect_uri) \o <<"?", "code", "=">> \o authCode
    \o <<"&", "state", "=">> \o TemplateStr(q.state)

handleAuthorizeRequest(q) ==
  LET err == AuthorizeError(q, Origin) IN
  IF err # ""
  THEN /\ resp' = JsonError("GET", "authorize", q, err)
       /\ UNCHANGED <<tokenCache, timers, usedCodes, minted, issued, consumed>>
  ELSE \E authCode \in randomString(usedCodes) :
         LET accessToken == generateAccessToken(q.nonce.v, now, minted + 1)
             idToken == generateIdToken("en-CA", q.nonce.v, now, minted + 2)
             tokenSet == [accessToken |-> accessToken, idToken |-> idToken]
         IN /\ minted + 2 <= MaxMinted
            /\ TimerSlotFree
            /\ usedCodes' = usedCodes \cup {authCode}
            /\ minted' = minted + 2
            /\ tokenCache' = MapSet(tokenCache, authCode, tokenSet)
            /\ timers' = setTimeout(timers, authCode, TimerDelay)
            /\ issued' = MapSet(issued, authCode, [tokenSet |-> tokenSet, at |-> now])
            /\ resp' = [method |-> "GET", ep |-> "authorize", status |-> FOUND,
                        error |-> "", req |-> q, code |-> authCode,
                        location |-> AuthorizeLocation(q, authCode),
                        minted |-> tokenSet,
                        sizeBefore |-> Cardinality(DOMAIN tokenCache),
                        sizeAfter |-> Cardinality(DOMAIN tokenCache'),
                        wasCached |-> MapHas(tokenCache, authCode),
                        stored |-> tokenCache'[authCode]]
            /\ UNCHANGED consumed

\* ------------------------------------------------------------------ /token
\* the checks with grant_type checked before code
TokenError_GrantFirst(f, origin) ==
  IF ~StrictEq(f.client_assertion_type, JWT_BEARER) THEN "invalid_client_assertion_type"
  ELSE IF ~StrictEq(f.client_id, AUTH_RAOIDC_CLIENT_ID) THEN "invalid_client"
  ELSE IF ~Truthy(f.client_assertion) THEN "invalid_client_assertion"
  ELSE IF ~StrictEq(f.grant_type, AUTHORIZATION_CODE) THEN "invalid_grant_type"
  ELSE IF ~Truthy(f.code) THEN "invalid_code"
  ELSE IF Truthy(f.redirect_uri) /\ f.redirect_uri.v \notin getAllowedCallbacks(origin)
    THEN "invalid_redirect_uri"
  ELSE ""

\* the validation checks of handleTokenRequest, "" when all pass
TokenError(f, origin) ==
  IF ~StrictEq(f.client_assertion_type, JWT_BEARER) THEN "invalid_client_assertion_type"
  ELSE IF ~StrictEq(f.client_id, AUTH_RAOIDC_CLIENT_ID) THEN "invalid_client"
  ELSE IF ~Truthy(f.client_assertion) THEN "invalid_client_assertion"
  ELSE IF ~Truthy(f.code) THEN "invalid_code"
  ELSE IF ~StrictEq(f.grant_type, AUTHORIZATION_CODE) THEN "invalid_grant_type"
  ELSE IF Truthy(f.redirect_uri) /\ f.redirect_uri.v \notin getAllowedCallbacks(origin)
    THEN "invalid_redirect_uri"
  ELSE ""

\* the part of handleTokenRequest after validation: tokenCache.get, then
\* setTimeout(() => tokenCache.delete(authCode), 30_000)
TokenLookup(f) ==
  LET authCode == f.code.v
      hit == MapHas(tokenCache, authCode)
  IN /\ TimerSlotFree
     /\ timers' = setTimeout(timers, authCode, TimerDelay)
     /\ UNCHANGED tokenCache
     /\ IF hit
        THEN /\ resp' = [method |-> "POST", ep |-> "token", status |-> OK, error |-> "",
                         req |-> f, lookups |-> 1,
                         replay |-> authCode \in consumed,
                         age |-> now - issued[authCode].at,
                         token_type |-> "Bearer",
                         access_token |-> tokenCache[authCode].accessToken,
                         id_token |-> tokenCache[authCode].idToken,
                         expires_in |-> ExpiresIn]
             /\ consumed' = consumed \cup {authCode}
        ELSE /\ resp' = JsonError("POST", "token", f, "invalid_auth_code")
                          @@ [lookups |-> 1,
                              replay |-> authCode \in consumed,
                              age |-> IF MapHas(issued, authCode)
                                      THEN now - issued[authCode].at ELSE -1]
             /\ UNCHANGED consumed

handleTokenRequest(f) ==
  LET err == TokenError(f, Origin) IN
  IF err # ""
  THEN /\ resp' = JsonError("POST", "token", f, err) @@ [lookups |-> 0]
       /\ UNCHANGED <<tokenCache, timers, usedCodes, minted, issued, consumed>>
  ELSE /\ TokenLookup(f)
       /\ UNCHANGED <<usedCodes, minted, issued>>


\* --------------------------------------------------------------- /userinfo
\* a ?? b
Nullish(x, d) == IF x.p THEN x.v ELSE d

\* a userinfo handler that defaults with || instead of ??
handleUserinfoRequest_OrDefault(q) ==
  LET birthdate == (IF Truthy(q.birthdate) THEN q.birthdate.v ELSE <<"2000-01-01">>)
      locale == (IF Truthy(q.locale) THEN q.locale.v ELSE <<"en-CA">>)
      sin == (IF Truthy(q.sin) THEN q.sin.v ELSE <<"00000000">>)
  IN /\ minted + 1 <= MaxMinted
     /\ minted' = minted + 1
     /\ resp' = [method |-> "GET", ep |-> "userinfo", status |-> OK, error |-> "",
                 req |-> q,
                 userinfo_token |->
                   generateUserinfoToken(birthdate, locale, sin, now, minted + 1)]
     /\ UNCHANGED <<tokenCache, timers, usedCodes, issued, consumed>>

handleUserinfoRequest(q) ==
  LET birthdate == Nullish(q.birthdate, <<"2000-01-01">>)
      locale == Nullish(q.locale, <<"en-CA">>)
      sin == Nullish(q.sin, <<"00000000">>)
  IN /\ minted + 1 <= MaxMinted
     /\ minted' = minted + 1
     /\ resp' = [method |-> "GET", ep |-> "userinfo", status |-> OK, error |-> "",
                 req |-> q,
                 userinfo_token |->
                   generateUserinfoToken(birthdate, locale, sin, now, minted + 1)]
     /\ UNCHANGED <<tokenCache, timers, usedCodes, issued, consumed>>

\* ------------------------------------- discovery, jwks, session validation
handleMetadataRequest(q) ==
  /\ resp' = [method |-> "GET", ep |-> ".well-known/openid-configuration",
              status |-> OK, error |-> "", req |-> q,
              issuer |-> AUTH_RAOIDC_ISSUER,
              authorization_endpoint |-> UrlOf(<<"/", "auth/raoidc">>, Origin) \o <<"/", "authorize">>,
              token_endpoint |-> UrlOf(<<"/", "auth/raoidc">>, Origin) \o <<"/", "token">>]
  /\ UNCHANGED <<tokenCache, timers, usedCodes, minted, issued, consumed>>

handleJwksRequest(q) ==
  /\ resp' = [method |-> "GET", ep |-> ".well-known/jwks", status |-> OK, error |-> "",
              req |-> q,
              keys |-> <<[alg |-> "RS256", kid |-> generatePublicKeyId, use |-> "sig"]>>]
  /\ UNCHANGED <<tokenCache, timers, usedCodes, minted, issued, consumed>>

handleValidateSession(q) ==
  /\ resp' = [method |-> "GET", ep |-> "validatesession", status |-> OK, error |-> "",
              req |-> q, body |-> TRUE]
  /\ UNCHANGED <<tokenCache, timers, usedCodes, minted, issued, consumed>>

\* ------------------------------------------------------------- dispatchers
\* the case labels of the two switch statements
LoaderCases ==
  {".well-known/openid-configuration", ".well-known/jwks", "authorize", "userinfo",
   "validatesession"}
ActionCases == {"token"}

\* the GET dispatcher without the feature-flag gate
loaderBody_Ungated(endpoint, q) ==
  CASE endpoint = ".well-known/openid-configuration" -> handleMetadataRequest(q)
    [] endpoint = ".well-known/jwks" -> handleJwksRequest(q)
    [] endpoint = "authorize" -> handleAuthorizeRequest(q)
    [] endpoint = "userinfo" -> handleUserinfoRequest(q)
    [] endpoint = "validatesession" -> handleValidateSession(q)
    [] OTHER -> /\ resp' = NotFound("GET", endpoint, q)
                /\ UNCHANGED <<tokenCache, timers, usedCodes, minted, issued, consumed>>

\* export async function loader: GET /auth/raoidc/<endpoint>
loaderBody(endpoint, q) ==
  IF ~flag
  THEN /\ resp' = NotFound("GET", endpoint, q)
       /\ UNCHANGED <<tokenCache, timers, usedCodes, minted, issued, consumed>>
  ELSE CASE endpoint = ".well-known/openid-configuration" -> handleMetadataRequest(q)
         [] endpoint = ".well-known/jwks" -> handleJwksRequest(q)
         [] endpoint = "authorize" -> handleAuthorizeRequest(q)
         [] endpoint = "userinfo" -> handleUserinfoRequest(q)
         [] endpoint = "validatesession" -> handleValidateSession(q)
         [] OTHER -> /\ resp' = NotFound("GET", endpoint, q)
                     /\ UNCHANGED <<tokenCache, timers, usedCodes, minted, issued,
                                    consumed>>

\* a GET request that reaches the provider from outside the application
loader(endpoint, q) ==
  /\ loaderBody(endpoint, q)
  /\ UNCHANGED <<clientVars, flag, now, rpVars>>

\* the POST dispatcher as it would be if its default case answered 200
actionBody_DefaultOk(endpoint, f) ==
  IF ~flag
  THEN /\ resp' = NotFound("POST", endpoint, f) @@ [lookups |-> 0]
       /\ UNCHANGED <<tokenCache, timers, usedCodes, minted, issued, consumed>>
  ELSE CASE endpoint = "token" -> handleTokenRequest(f)
         [] OTHER -> /\ resp' = [NotFound("POST", endpoint, f) EXCEPT !.status = OK]
                                   @@ [lookups |-> 0]
                     /\ UNCHANGED <<tokenCache, timers, usedCodes, minted, issued,
                                    consumed>>

\* export async function action: POST /auth/raoidc/<endpoint>
actionBody(endpoint, f) ==
  IF ~flag
  THEN /\ resp' = NotFound("POST", endpoint, f) @@ [lookups |-> 0]
       /\ UNCHANGED <<tokenCache, timers, usedCodes, minted, issued, consumed>>
  ELSE CASE endpoint = "token" -> handleTokenRequest(f)
         [] OTHER -> /\ resp' = NotFound("POST", endpoint, f) @@ [lookups |-> 0]
                     /\ UNCHANGED <<tokenCache, timers, usedCodes, minted, issued,
                                    consumed>>

\* a POST request that reaches the provider from outside the application
action(endpoint, f) ==
  /\ actionBody(endpoint, f)
  /\ UNCHANGED <<clientVars, flag, now, rpVars>>

\* ------------------------------------------------------------ timers, clock
\* a timer callback that is dropped without running
TimerFire_Dropped ==
  \E t \in timers :
    /\ t.due <= now
    /\ timers' = timers \ {t}
    /\ UNCHANGED <<clientVars, flag, now, tokenCache, usedCodes, minted, issued, consumed,
                   resp, rpVars>>

\* a due setTimeout callback runs: () => tokenCache.delete(code)
TimerFire ==
  \E t \in timers :
    /\ t.due <= now
    /\ tokenCache' = MapDelete(tokenCache, t.code)
    /\ timers' = timers \ {t}
    /\ UNCHANGED <<clientVars, flag, now, usedCodes, minted, issued, consumed, resp, rpVars>>

Min(S) == CHOOSE x \in S : \A y \in S : x <= y

\* time passes, up to the next due timer
Tick ==
  /\ now < MaxTime
  /\ \A t \in timers : t.due > now
  /\ now' = Min({now + TickMs, MaxTime} \cup {t.due : t \in timers})
  /\ UNCHANGED <<clientVars, flag, provVars, rpVars>>

\* ---------------------------------------------------------------- session
Undefined == [p |-> FALSE]
AnonymousSession ==
  [loginState |-> Undefined, authState |-> Undefined, stubloginState |-> Undefined]
NoHist == [logins |-> 0, authUrls |-> {}, consumedLogins |-> {}, loggedOut |-> FALSE]

AUTH_RAOIDC_RASCL_LOGOUT_URL ==
  <<"http:", "/", "/", "localhost:3000", "/", "auth/raoidc/logout">>
AUTH_RAOIDC_LOGOUT_URL == <<"http:", "/", "/", "localhost:3000", "/", "stub-login">>

\* ------------------------------------------------- relying-party client
\* generateSigninRequest(callbackUrl): fresh state, nonce and verifier (the
\* k-th request draws the k-th values) and the authorize request for them
generateSigninRequest(callbackUrl, k) ==
  [authUrl |-> [client_id |-> Some(AUTH_RAOIDC_CLIENT_ID),
                nonce |-> Some(<<"n", ToString(k)>>),
                redirect_uri |-> Some(callbackUrl),
                scope |-> Some(<<"openid">>),
                state |-> Some(<<"s", ToString(k)>>)],
   codeVerifier |-> <<"v", ToString(k)>>,
   nonce |-> <<"n", ToString(k)>>,
   state |-> <<"s", ToString(k)>>]

\* generateSignoutRequest(sub, lang): the provider's logout URL for them
generateSignoutRequest(sub, lang) ==
  AUTH_RAOIDC_LOGOUT_URL \o <<"?", "sub", "=", sub, "&", "lang", "=">> \o lang

\* what the holder of the relying party's private key reads in a token
DecryptWithClientKey(token) ==
  IF token.encKey = "AUTH_CLIENT_PUBLIC_KEY"
  THEN [ok |-> TRUE, claims |-> token.extra @@ token.claims]
  ELSE [ok |-> FALSE]

\* handleCallbackRequest, the checks it makes before and after the token
\* exchange: "" when all pass, else why it throws
StateError(url, state) ==
  IF ~StrictEq(url.state, state) THEN "state mismatch" ELSE ""

TokenSetError(tokenResp, nonce, garbled) ==
  IF tokenResp.status # OK THEN "token endpoint answered non-2xx"
  ELSE IF garbled \/ ~DecryptWithClientKey(tokenResp.id_token).ok THEN "decryption failed"
  ELSE IF DecryptWithClientKey(tokenResp.id_token).claims.nonce # nonce THEN "nonce mismatch"
  ELSE ""

\* the form handleCallbackRequest posts to the token endpoint
TokenExchangeForm(code, callbackUrl) ==
  [client_assertion_type |-> Some(JWT_BEARER), client_id |-> Some(AUTH_RAOIDC_CLIENT_ID),
   client_assertion |-> Some(<<"jwt">>), code |-> code,
   grant_type |-> Some(AUTHORIZATION_CODE), redirect_uri |-> Some(callbackUrl)]

\* ------------------------------------------------------------ /auth/login
RpError(route, status, message) ==
  [route |-> route, status |-> status, message |-> message]

\* handleLogin, reached through the loader of /auth/login or through the
\* stub-login page, which calls that loader
handleLogin(route, q) ==
  IF Truthy(q.returnto) /\ q.returnto.v[1] # "/"
  THEN /\ rpResp' = RpError(route, BAD_REQUEST, "Invalid returnto path")
       /\ UNCHANGED <<session, rpHist>>
  ELSE LET returnUrl == IF Truthy(q.returnto)
                        THEN Some(UrlOf(q.returnto.v, Origin)) ELSE Absent
           k == rpHist.logins + 1
           signin == generateSigninRequest(UrlOf(<<"/", "auth/callback">>, Origin), k)
           authUrl == IF flag /\ Truthy(q.sin)
                      THEN signin.authUrl @@ [sin |-> q.sin] ELSE signin.authUrl
       IN /\ k <= MaxLogins
          /\ session' = [session EXCEPT
               !.loginState = [p |-> TRUE, codeVerifier |-> signin.codeVerifier,
                               nonce |-> signin.nonce, returnUrl |-> returnUrl,
                               state |-> signin.state],
               !.stubloginState = [p |-> TRUE, birthdate |-> q.birthdate,
                                   locale |-> q.locale, sin |-> q.sin]]
          /\ rpHist' = [rpHist EXCEPT !.logins = k,
                                      !.authUrls = @ \cup {signin.authUrl},
                                      !.loggedOut = FALSE]
          /\ rpResp' = [route |-> route, status |-> FOUND, authUrl |-> authUrl,
                        req |-> q]

\* ------------------------------------------------------- stub-login page
stubLoginLoader(q) ==
  IF ~flag
  THEN /\ rpResp' = RpError("stub-login", NOT_FOUND, "")
       /\ UNCHANGED <<session, rpHist>>
  ELSE IF Truthy(q.sin)
  THEN handleLogin("stub-login", q)
  ELSE /\ rpResp' = [route |-> "stub-login", status |-> OK]
       /\ UNCHANGED <<session, rpHist>>

\* --------------------------------------------------------- /auth/callback
\* a callback that marks the session authenticated even when it fails
SessionAfterCallback_Partial(sess, ok, tokenSet) ==
  IF ok
  THEN [sess EXCEPT
          !.authState = [p |-> TRUE, accessToken |-> tokenSet.accessToken,
                         idTokenClaims |-> tokenSet.idToken,
                         userinfoTokenClaims |-> tokenSet.userinfoToken],
          !.loginState = Undefined,
          !.stubloginState = Undefined]
  ELSE [sess EXCEPT !.authState = [p |-> TRUE]]

\* the session after handleCallbackRequest has returned or thrown
SessionAfterCallback(sess, ok, tokenSet) ==
  IF ok
  THEN [sess EXCEPT
          !.authState = [p |-> TRUE, accessToken |-> tokenSet.accessToken,
                         idTokenClaims |-> tokenSet.idToken,
                         userinfoTokenClaims |-> tokenSet.userinfoToken],
          !.loginState = Undefined,
          !.stubloginState = Undefined]
  ELSE sess

\* a?.b
OptField(rec, b) == IF rec.p THEN rec[b] ELSE Absent

\* handleCallbackRequest throws: the error reaches the error boundary
CallbackFails(url, why) ==
  /\ rpResp' = RpError("callback", 500, why)
  /\ session' = SessionAfterCallback(session, FALSE, Undefined)
  /\ UNCHANGED <<inflight, rpHist>>

\* handleCallback as it would be if the 400 answer also dropped the AuthState
CallbackStart_DropsAuthState(url) ==
  /\ BagCardinality(inflight) < MaxInflight
  /\ IF ~session.loginState.p
     THEN /\ rpResp' = RpError("callback", BAD_REQUEST, "Invalid login state")
          /\ session' = [session EXCEPT !.authState = Undefined]
          /\ UNCHANGED <<provVars, inflight, rpHist>>
     ELSE LET codeVerifier == session.loginState.codeVerifier
              nonce == session.loginState.nonce
              state == session.loginState.state
              returnUrl == Nullish(session.loginState.returnUrl,
                                   UrlOf(<<"/", "en">>, Origin))
              opts == IF flag
                      THEN [birthdate |-> OptField(session.stubloginState, "birthdate"),
                            locale |-> OptField(session.stubloginState, "locale"),
                            sin |-> OptField(session.stubloginState, "sin")]
                      ELSE [birthdate |-> Absent, locale |-> Absent, sin |-> Absent]
          IN IF StateError(url, state) # ""
             THEN /\ CallbackFails(url, StateError(url, state))
                  /\ UNCHANGED provVars
             ELSE /\ actionBody("token",
                                TokenExchangeForm(url.code,
                                                  UrlOf(<<"/", "auth/callback">>, Origin)))
                  /\ \E garbled \in IF resp'.status = OK THEN BOOLEAN ELSE {FALSE} :
                       LET err == TokenSetError(resp', nonce, garbled) IN
                       IF err # ""
                       THEN CallbackFails(url, err)
                       ELSE /\ inflight' = inflight (+) SetToBag({
                                 [url |-> url, state |-> state,
                                  storedReturnUrl |-> session.loginState.returnUrl,
                                  returnUrl |-> returnUrl, opts |-> opts,
                                  accessToken |-> resp'.access_token,
                                  idToken |-> DecryptWithClientKey(resp'.id_token).claims]})
                            /\ UNCHANGED <<session, rpResp, rpHist>>
  /\ UNCHANGED <<clientVars, flag, now>>

\* handleCallback up to the token exchange: the login state is read, then
\* handleCallbackRequest checks the state, exchanges the code at the token
\* endpoint, decrypts the ID token and checks its nonce
CallbackStart(url) ==
  /\ BagCardinality(inflight) < MaxInflight
  /\ IF ~session.loginState.p
     THEN /\ rpResp' = RpError("callback", BAD_REQUEST, "Invalid login state")
          /\ UNCHANGED <<provVars, session, inflight, rpHist>>
     ELSE LET codeVerifier == session.loginState.codeVerifier
              nonce == session.loginState.nonce
              state == session.loginState.state
              returnUrl == Nullish(session.loginState.returnUrl,
                                   UrlOf(<<"/", "en">>, Origin))
              opts == IF flag
                      THEN [birthdate |-> OptField(session.stubloginState, "birthdate"),
                            locale |-> OptField(session.stubloginState, "locale"),
                            sin |-> OptField(session.stubloginState, "sin")]
                      ELSE [birthdate |-> Absent, locale |-> Absent, sin |-> Absent]
          IN IF StateError(url, state) # ""
             THEN /\ CallbackFails(url, StateError(url, state))
                  /\ UNCHANGED provVars
             ELSE /\ actionBody("token",
                                TokenExchangeForm(url.code,
                                                  UrlOf(<<"/", "auth/callback">>, Origin)))
                  /\ \E garbled \in IF resp'.status = OK THEN BOOLEAN ELSE {FALSE} :
                       LET err == TokenSetError(resp', nonce, garbled) IN
                       IF err # ""
                       THEN CallbackFails(url, err)
                       ELSE /\ inflight' = inflight (+) SetToBag({
                                 [url |-> url, state |-> state,
                                  storedReturnUrl |-> session.loginState.returnUrl,
                                  returnUrl |-> returnUrl, opts |-> opts,
                                  accessToken |-> resp'.access_token,
                                  idToken |-> DecryptWithClientKey(resp'.id_token).claims]})
                            /\ UNCHANGED <<session, rpResp, rpHist>>
  /\ UNCHANGED <<clientVars, flag, now>>

\* the rest of handleCallbackRequest and of handleCallback: the userinfo
\* fetch, then the session is written and the browser redirected
CallbackUserinfo(r) ==
  /\ BagIn(r, inflight)
  /\ loaderBody("userinfo", r.opts)
  /\ inflight' = inflight (-) SetToBag({r})
  /\ IF resp'.status # OK
     THEN /\ rpResp' = RpError("callback", 500, "userinfo endpoint answered non-2xx")
          /\ session' = SessionAfterCallback(session, FALSE, Undefined)
          /\ UNCHANGED rpHist
     ELSE LET userinfo == DecryptWithClientKey(resp'.userinfo_token)
              tokenSet == [accessToken |-> r.accessToken, idToken |-> r.idToken,
                           userinfoToken |-> userinfo.claims]
          IN /\ session' = SessionAfterCallback(session, TRUE, tokenSet)
             /\ rpResp' = [route |-> "callback", status |-> FOUND,
                           location |-> r.returnUrl, url |-> r.url,
                           tokenSet |-> tokenSet,
                           storedReturnUrl |-> r.storedReturnUrl,
                           loginState |-> r.state,
                           reused |-> r.state \in rpHist.consumedLogins]
             /\ rpHist' = [rpHist EXCEPT !.consumedLogins = @ \cup {r.state}]
  /\ UNCHANGED <<clientVars, flag, now>>

\* ----------------------------------------------------------- /auth/logout
\* a logout that deletes AuthState only
handleLogout_AuthStateOnly(q) ==
  IF ~session.authState.p
  THEN /\ rpResp' = [route |-> "logout", status |-> FOUND,
                     location |-> AUTH_RAOIDC_RASCL_LOGOUT_URL]
       /\ UNCHANGED <<session, rpHist>>
  ELSE /\ rpResp' = [route |-> "logout", status |-> FOUND, req |-> q,
                     location |-> generateSignoutRequest(
                                    session.authState.idTokenClaims.sub,
                                    Nullish(q.lang, <<"en">>))]
       /\ session' = [session EXCEPT !.authState = Undefined]
       /\ rpHist' = [rpHist EXCEPT !.loggedOut = TRUE]

handleLogout(q) ==
  IF ~session.authState.p
  THEN /\ rpResp' = [route |-> "logout", status |-> FOUND,
                     location |-> AUTH_RAOIDC_RASCL_LOGOUT_URL]
       /\ UNCHANGED <<session, rpHist>>
  ELSE /\ rpResp' = [route |-> "logout", status |-> FOUND, req |-> q,
                     location |-> generateSignoutRequest(
                                    session.authState.idTokenClaims.sub,
                                    Nullish(q.lang, <<"en">>))]
       /\ session' = [session EXCEPT !.authState = Undefined,
                                     !.loginState = Undefined,
                                     !.stubloginState = Undefined]
       /\ rpHist' = [rpHist EXCEPT !.loggedOut = TRUE]

\* ------------------------------------------------------ RaoidcIdTokenSchema
\* the claims the relying party's ID-token schema requires and allows
RaoidcIdTokenSchema ==
  [required |-> {"aud", "exp", "iat", "iss", "jti", "nbf", "nonce", "sid", "sub"},
   optional |-> {"locale"}]

\* ------------------------------------------------------------ requireAuth
\* raoidcClient.handleValidationRequest(sid): what the provider's
\* session-validate endpoint answers for the session identifier
handleValidationRequest(sid, answer) == answer

\* `/auth/login?returnto=${pathname}${search}`
LoginRedirect(req) ==
  <<"/", "auth/login", "?", "returnto", "=">> \o req.pathname \o req.search

\* idTokenClaims.sid
SidOf(idTokenClaims) ==
  IF "sid" \in DOMAIN idTokenClaims THEN Some(idTokenClaims.sid) ELSE Absent

\* a requireAuth that does not ask the provider
requireAuth_Unvalidated(sess, req, answer) ==
  IF ~sess.authState.p
  THEN [thrown |-> TRUE, location |-> LoginRedirect(req), asked |-> FALSE]
  ELSE [thrown |-> FALSE, authState |-> sess.authState, asked |-> TRUE,
        sid |-> SidOf(sess.authState.idTokenClaims)]

\* requireAuth(session, request): the AuthState it returns, or the redirect
\* it throws
requireAuth(sess, req, answer) ==
  IF ~sess.authState.p
  THEN [thrown |-> TRUE, location |-> LoginRedirect(req), asked |-> FALSE]
  ELSE IF ~handleValidationRequest(SidOf(sess.authState.idTokenClaims), answer)
  THEN [thrown |-> TRUE, location |-> LoginRedirect(req), asked |-> TRUE,
        sid |-> SidOf(sess.authState.idTokenClaims)]
  ELSE [thrown |-> FALSE, authState |-> sess.authState, asked |-> TRUE,
        sid |-> SidOf(sess.authState.idTokenClaims)]

\* the answer of a route that has called requireAuth: the thrown redirect,
\* or the route's own body
GuardedResponse(route, req, r, body, answer) ==
  IF r.thrown
  THEN [route |-> route, status |-> FOUND, location |-> r.location, req |-> req,
        asked |-> r.asked, answer |-> answer]
  ELSE [route |-> route, status |-> OK, body |-> body, req |-> req,
        asked |-> r.asked, answer |-> answer, returned |-> r.authState]

\* the loader of the protected layout
layoutLoader(req, answer) ==
  LET r == requireAuth(session, req, answer) IN
  /\ rpResp' = GuardedResponse("layout", req, r,
                  IF r.thrown THEN <<>> ELSE r.authState.userinfoTokenClaims.sin,
                  answer)
  /\ UNCHANGED <<session, rpHist>>

\* a session refresh that signs the user out when validation fails
sessionRefreshAction_ForcedLogout(req, answer) ==
  LET r == requireAuth(session, req, answer) IN
  /\ rpResp' = GuardedResponse("session-refresh", req, r, TRUE, answer)
  /\ session' = IF r.thrown /\ r.asked
                THEN [session EXCEPT !.authState = Undefined] ELSE session
  /\ UNCHANGED rpHist

\* POST /auth/session-refresh
sessionRefreshAction(req, answer) ==
  LET r == requireAuth(session, req, answer) IN
  /\ rpResp' = GuardedResponse("session-refresh", req, r, TRUE, answer)
  /\ UNCHANGED <<session, rpHist>>

\* ------------------------------------------------------- adobe analytics
MaxEvents == 2
MaxWarnings == 2

\* window.adobeDataLayer: undefined until the analytics script has loaded,
\* then an object whose push may be missing
NoDataLayer == [defined |-> FALSE]
AdobeDataLayers == {[defined |-> TRUE, push |-> hasPush, events |-> <<>>] : hasPush \in BOOLEAN}
NotDefinedWarning ==
  "window.adobeDataLayer is not defined. This could mean your adobe analytics script has not loaded on the page yet."
NoCall == [fn |-> "none"]

\* new URL(u).host and new URL(u).pathname: the authority after the scheme,
\* and the path up to the query or fragment, "/" when the URL has none
UrlHost(u) == <<UrlBase(u)[4]>>
UrlPathname(u) ==
  LET b == UrlBase(u) IN IF Len(b) <= 4 THEN <<"/">> ELSE SubSeq(b, 5, Len(b))

\* a push that reaches every data layer
OptionalPush_Always(layer, ev) == [layer EXCEPT !.events = Append(@, ev)]

\* window.adobeDataLayer.push?.(ev)
OptionalPush(layer, ev) ==
  IF layer.push THEN [layer EXCEPT !.events = Append(@, ev)] ELSE layer

ConsoleWarn(w, message) ==
  [w EXCEPT !.console = Append(@, [level |-> "warn", message |-> message])]

AfterPush(w, ev) ==
  IF ~w.adobeDataLayer.defined
  THEN ConsoleWarn(w, NotDefinedWarning)
  ELSE [w EXCEPT !.adobeDataLayer = OptionalPush(@, ev)]

WindowInBounds(w) ==
  /\ Len(w.console) <= MaxWarnings
  /\ w.adobeDataLayer.defined => Len(w.adobeDataLayer.events) <= MaxEvents

pushErrorEvent(errorStatusCode) ==
  /\ window' = AfterPush(window, [event |-> "error",
                                   error |-> [name |-> ToString(errorStatusCode)]])
  /\ WindowInBounds(window')
  /\ call' = [fn |-> "pushErrorEvent", arg |-> errorStatusCode,
              before |-> window, after |-> window']
  /\ UNCHANGED <<flag, now, provVars, rpVars>>

pushPageviewEvent(locationUrl) ==
  /\ window' = AfterPush(window, [event |-> "pageLoad",
                                   page |-> [url |-> UrlHost(locationUrl)
                                                       \o UrlPathname(locationUrl)]])
  /\ WindowInBounds(window')
  /\ call' = [fn |-> "pushPageviewEvent", arg |-> locationUrl,
              before |-> window, after |-> window']
  /\ UNCHANGED <<flag, now, provVars, rpVars>>

\* the analytics script has run and defined window.adobeDataLayer
AdobeScriptLoaded ==
  /\ ~window.adobeDataLayer.defined
  /\ \E layer \in AdobeDataLayers : window' = [window EXCEPT !.adobeDataLayer = layer]
  /\ UNCHANGED <<call, flag, now, provVars, rpVars>>

ErrorStatusCodes == {404, 500}
LocationUrls ==
  {<<"https:", "/", "/", "www.example.com">>,
   <<"https:", "/", "/", "www.example.com", "/", "about-us">>,
   <<"http:", "/", "/", "localhost:3000", "/", "en", "?", "sort", "=", "asc", "#", "top">>}

\* ------------------------------------------------------- request alphabets
CallbackUrl == UrlOf(<<"/", "auth/callback">>, Origin)
EvilUrl == <<"https:", "/", "/", "evil.example", "/", "cb">>
Nonces == {<<"n1">>}
States == {<<"s1">>, <<"s1", "&", "x">>}

AuthorizeQueries ==
  [client_id : {Some(AUTH_RAOIDC_CLIENT_ID), Some(<<"WRONG">>)},
   nonce : {Absent, Some(<<>>)} \cup {Some(n) : n \in Nonces},
   redirect_uri : {Absent, Some(CallbackUrl), Some(EvilUrl)},
   scope : {Absent, Some(<<"openid">>)},
   state : {Absent} \cup {Some(s) : s \in States}]

\* the codes a client can present: the ones issued so far, and a made-up one
PresentedCodes == usedCodes \cup {<<"never-issued">>}
FormCodes == {<<"1">>, <<"never-issued">>}

TokenForms ==
  [client_assertion_type : {Some(JWT_BEARER), Absent},
   client_id : {Some(AUTH_RAOIDC_CLIENT_ID), Some(<<"WRONG">>)},
   client_assertion : {Some(<<"jwt">>), Absent},
   code : {Absent} \cup {Some(c) : c \in FormCodes},
   grant_type : {Some(AUTHORIZATION_CODE), Some(<<"refresh_token">>)},
   redirect_uri : {Absent, Some(CallbackUrl), Some(EvilUrl)}]

UserinfoQueries ==
  [authorization : {Absent, Some(<<"Bearer", " ", "access-token">>)},
   birthdate : {Absent, Some(<<"1990-05-05">>)},
   locale : {Absent, Some(<<"fr-CA">>)},
   sin : {Absent, Some(<<"800000002">>), Some(<<>>)}]

NoParams == [none |-> TRUE]
GetEndpoints ==
  {".well-known/openid-configuration", ".well-known/jwks", "validatesession", "token",
   "logout"}
PostEndpoints == {"authorize", "userinfo"}

\* the requests of the cache-dynamics specification: a well-formed request
\* for every code, and one malformed request per endpoint
ValidQuery(nonce, state, redirect_uri) ==
  [client_id |-> Some(AUTH_RAOIDC_CLIENT_ID), nonce |-> Some(nonce),
   redirect_uri |-> redirect_uri, scope |-> Some(<<"openid">>), state |-> Some(state)]

CoreAuthorizeQueries ==
  {ValidQuery(<<"n1">>, <<"s1">>, Some(CallbackUrl)),
   [ValidQuery(<<"n1">>, <<"s1">>, Some(CallbackUrl)) EXCEPT !.client_id = Some(<<"WRONG">>)]}

ValidForm(code) ==
  [client_assertion_type |-> Some(JWT_BEARER), client_id |-> Some(AUTH_RAOIDC_CLIENT_ID),
   client_assertion |-> Some(<<"jwt">>), code |-> code,
   grant_type |-> Some(AUTHORIZATION_CODE), redirect_uri |-> Some(CallbackUrl)]

CoreTokenForms == {ValidForm(Some(c)) : c \in PresentedCodes} \cup {ValidForm(Absent)}

LoginQueries ==
  [returnto : {Absent, Some(<<"/", "letters">>), Some(<<"letters">>)},
   sin : {Absent},
   birthdate : {Absent},
   locale : {Absent}]

\* /auth/login with every kind of returnto: none, a path, a reference that
\* does not start with "/", and one that starts with "//"
ReturntoQueries ==
  [returnto : {Absent, Some(<<"/", "letters">>), Some(<<"letters">>),
               Some(<<"/", "/", "evil.example", "/", "x">>)},
   sin : {Absent},
   birthdate : {Absent},
   locale : {Absent}]

StubLoginQueries ==
  [returnto : {Absent},
   sin : {Absent, Some(<<"800000002">>)},
   birthdate : {Absent, Some(<<"1990-05-05">>)},
   locale : {Absent}]

\* the callback URLs a browser can request: any code it has seen or made
\* up, any state a sign-in request has carried
CallbackUrls ==
  [code : {Some(c) : c \in PresentedCodes},
   state : {Absent} \cup {q.state : q \in rpHist.authUrls}]

LogoutQueries == [lang : {Absent, Some(<<"fr">>)}]

ProtectedRequests == {[pathname |-> <<"/", "en/protected">>, search |-> <<"?", "x", "=", "1">>]}
RefreshRequests == {[pathname |-> <<"/", "auth/session-refresh">>, search |-> <<>>]}

\* the provider is asked only when the session holds AuthState
ProviderAnswers == IF session.authState.p THEN BOOLEAN ELSE {TRUE}

\* ----------------------------------------------------------- specification
GetAuthorize == \E q \in AuthorizeQueries : loader("authorize", q)
PostToken == \E f \in TokenForms : action("token", f)
GetAuthorizeCore == \E q \in CoreAuthorizeQueries : loader("authorize", q)
PostTokenCore == \E f \in CoreTokenForms : action("token", f)
GetUserinfo == \E q \in UserinfoQueries : loader("userinfo", q)
GetOther == \E ep \in GetEndpoints : loader(ep, NoParams)
PostOther == \E ep \in PostEndpoints : action(ep, NoParams)

Init ==
  /\ flag \in BOOLEAN
  /\ tokenCache = EmptyMap
  /\ timers = {}
  /\ now = 0
  /\ usedCodes = {}
  /\ minted = 0
  /\ issued = EmptyMap
  /\ consumed = {}
  /\ resp = NoResp
  /\ session = AnonymousSession
  /\ inflight = EmptyBag
  /\ rpResp = [route |-> "none", status |-> 0]
  /\ rpHist = NoHist
  /\ window = [adobeDataLayer |-> NoDataLayer, console |-> <<>>]
  /\ call = NoCall

\* the code cache over time: issuance, exchange, expiry
Next ==
  \/ GetAuthorizeCore
  \/ PostTokenCore
  \/ TimerFire
  \/ Tick

Spec == Init /\ [][Next]_vars

\* every provider endpoint and the stub-login page behind the feature flag
StubLoginPage ==
  /\ \E q \in StubLoginQueries : stubLoginLoader(q)
  /\ UNCHANGED <<clientVars, flag, now, provVars, inflight>>

NextGate ==
  \/ GetAuthorizeCore
  \/ PostTokenCore
  \/ GetUserinfo
  \/ GetOther
  \/ PostOther
  \/ StubLoginPage

SpecGate == Init /\ [][NextGate]_vars

\* the relying party's routes on one browser session, against the provider
Login ==
  /\ \E q \in LoginQueries : handleLogin("login", q)
  /\ UNCHANGED <<clientVars, flag, now, provVars, inflight>>

BrowserAuthorize == \E q \in rpHist.authUrls : loader("authorize", q)

Callback == \E url \in CallbackUrls : CallbackStart(url)

CallbackFinish == \E r \in BagToSet(inflight) : CallbackUserinfo(r)

Logout ==
  /\ \E q \in LogoutQueries : handleLogout(q)
  /\ UNCHANGED <<clientVars, flag, now, provVars, inflight>>

NextRP ==
  \/ Login
  \/ BrowserAuthorize
  \/ Callback
  \/ CallbackFinish
  \/ Logout

SpecRP == Init /\ [][NextRP]_vars

\* the relying party's routes together with the routes that call requireAuth
ProtectedLoader ==
  /\ \E req \in ProtectedRequests, answer \in ProviderAnswers : layoutLoader(req, answer)
  /\ UNCHANGED <<clientVars, flag, now, provVars, inflight>>

SessionRefresh ==
  /\ \E req \in RefreshRequests, answer \in ProviderAnswers :
       sessionRefreshAction(req, answer)
  /\ UNCHANGED <<clientVars, flag, now, provVars, inflight>>

\* the answer of a relying-party route has left the server; in this
\* specification the browser's next request is handled only after the
\* answer to the one before has left
NoRpResp == [route |-> "none", status |-> 0]
Answered == rpResp = NoRpResp

Deliver ==
  /\ ~Answered
  /\ rpResp' = NoRpResp
  /\ UNCHANGED <<clientVars, flag, now, provVars, session, inflight, rpHist>>

NextGuard ==
  \/ Answered /\ Login
  \/ Answered /\ BrowserAuthorize
  \/ Answered /\ Callback
  \/ Answered /\ CallbackFinish
  \/ Answered /\ Logout
  \/ Answered /\ ProtectedLoader
  \/ Answered /\ SessionRefresh
  \/ Deliver

SpecGuard == Init /\ [][NextGuard]_vars

\* parameter validation of /authorize and /token over every combination of
\* present, empty, wrong and missing parameters
NextValidate ==
  \/ GetAuthorize
  \/ PostToken

SpecValidate == Init /\ [][NextValidate]_vars

\* every route that can touch the session or the provider: the relying
\* party's routes, the routes behind requireAuth, the stub-login page and the
\* provider's endpoints; here the server takes a request only after it has
\* finished the one before
Quiet == Answered /\ inflight = EmptyBag

NextFrame ==
  \/ Quiet /\ Login
  \/ Quiet /\ BrowserAuthorize
  \/ Quiet /\ Callback
  \/ Answered /\ CallbackFinish
  \/ Quiet /\ Logout
  \/ Quiet /\ ProtectedLoader
  \/ Quiet /\ SessionRefresh
  \/ Quiet /\ StubLoginPage
  \/ Quiet /\ GetOther
  \/ Quiet /\ PostOther
  \/ Deliver

SpecFrame == Init /\ [][NextFrame]_vars

\* sign-in with any returnto, one request at a time, up to the redirect of
\* the callback
LoginReturnto ==
  /\ \E q \in ReturntoQueries : handleLogin("login", q)
  /\ UNCHANGED <<clientVars, flag, now, provVars, inflight>>

NextReturn ==
  \/ Quiet /\ LoginReturnto
  \/ Quiet /\ BrowserAuthorize
  \/ Quiet /\ Callback
  \/ Answered /\ CallbackFinish
  \/ Deliver

SpecReturn == Init /\ [][NextReturn]_vars

\* the provider minting tokens while time passes
NextMint ==
  \/ GetAuthorizeCore
  \/ GetUserinfo
  \/ TimerFire
  \/ Tick

SpecMint == Init /\ [][NextMint]_vars

\* the code cache with an event loop that runs every due timer and a clock
\* that keeps advancing; codes are issued while their expiry is within MaxTime
GetAuthorizeInTime == now + TimerDelay <= MaxTime /\ GetAuthorizeCore

NextExpiry ==
  \/ GetAuthorizeInTime
  \/ PostTokenCore
  \/ TimerFire
  \/ Tick

SpecExpiry ==
  Init /\ [][NextExpiry]_vars /\ WF_vars(TimerFire) /\ WF_vars(Tick)

\* the analytics functions in a browser where the analytics script may load
PushErrorEvent == \E errorStatusCode \in ErrorStatusCodes : pushErrorEvent(errorStatusCode)

PushPageviewEvent == \E locationUrl \in LocationUrls : pushPageviewEvent(locationUrl)

NextAnalytics ==
  \/ AdobeScriptLoaded
  \/ PushErrorEvent
  \/ PushPageviewEvent

SpecAnalytics == Init /\ [][NextAnalytics]_vars


\* ------------------------------------------------------------- properties
IsAuthorizeResp(r) == r.method = "GET" /\ r.ep = "authorize" /\ r.status # NOT_FOUND
IsTokenResp(r) == r.method = "POST" /\ r.ep = "token" /\ r.status # NOT_FOUND

\* the checks of /authorize in the order the specification lists them
AuthorizeChecks(q) ==
  << <<"invalid_client_id", ~(q.client_id.p /\ q.client_id.v = AUTH_RAOIDC_CLIENT_ID)>>,
     <<"invalid_nonce", ~q.nonce.p \/ q.nonce.v = <<>> >>,
     <<"invalid_redirect_uri",
       q.redirect_uri.p /\ q.redirect_uri.v # <<>> /\ q.redirect_uri.v # CallbackUrl>>,
     <<"invalid_scope", ~q.scope.p \/ q.scope.v = <<>> >>,
     <<"invalid_state", ~q.state.p \/ q.state.v = <<>> >> >>

\* the checks of /token in the order the specification lists them
TokenChecks(f) ==
  << <<"invalid_client_assertion_type",
       ~(f.client_assertion_type.p /\ f.client_assertion_type.v = JWT_BEARER)>>,
     <<"invalid_client", ~(f.client_id.p /\ f.client_id.v = AUTH_RAOIDC_CLIENT_ID)>>,
     <<"invalid_client_assertion", ~f.client_assertion.p \/ f.client_assertion.v = <<>> >>,
     <<"invalid_code", ~f.code.p \/ f.code.v = <<>> >>,
     <<"invalid_grant_type", ~(f.grant_type.p /\ f.grant_type.v = AUTHORIZATION_CODE)>>,
     <<"invalid_redirect_uri",
       f.redirect_uri.p /\ f.redirect_uri.v # <<>> /\ f.redirect_uri.v # CallbackUrl>> >>

Failing(checks) == {i \in 1..Len(checks) : checks[i][2]}
FirstFailing(checks) == checks[Min(Failing(checks))][1]

\* C1: an authorization code is single-use: no POST /token that passes
\* validation is answered with the token pair for a code that an earlier
\* POST /token has already been answered with the token pair for.
C1_SingleUse ==
  (IsTokenResp(resp) /\ resp.status = OK) => ~resp.replay

\* C2: a code that was not exchanged within 30 seconds of its issuance is
\* unusable: a POST /token that passes validation and presents it more than
\* 30 seconds after issuance is answered 400 invalid_auth_code.
C2_ExpiredCodeUnusable ==
  (/\ IsTokenResp(resp)
   /\ resp.lookups = 1
   /\ ~resp.replay
   /\ resp.age > TimerDelay)
  => (resp.status = BAD_REQUEST /\ resp.error = "invalid_auth_code")

C2_Witness ==
  /\ IsTokenResp(resp)
  /\ resp.lookups = 1
  /\ resp.age > TimerDelay
  /\ ~resp.replay
  /\ resp.error = "invalid_auth_code"

\* C3: every GET /authorize that passes validation adds exactly one cache
\* entry, under a code that was not cached before, holding the token pair
\* minted for the request, and redirects to the request's redirect_uri with
\* a query that carries that code and the request's state unchanged.
C3_AuthorizeSuccess ==
  (IsAuthorizeResp(resp) /\ Failing(AuthorizeChecks(resp.req)) = {})
  => /\ resp.status = FOUND
     /\ resp.sizeAfter = resp.sizeBefore + 1
     /\ ~resp.wasCached
     /\ resp.stored = resp.minted
     /\ resp.req.redirect_uri.p
     /\ UrlBase(resp.location) = resp.req.redirect_uri.v
     /\ SearchParamsGet(resp.location, <<"code">>) = Some(resp.code)
     /\ SearchParamsGet(resp.location, <<"state">>) = resp.req.state

\* C4: a GET /authorize that fails validation is answered 400 with the
\* error of a check that the request really fails (the error of the failing
\* check when only one fails), issues no code, mints no token, schedules
\* nothing and leaves the code cache unchanged.
C4_AuthorizeRejects ==
  [][(/\ resp' # resp
      /\ IsAuthorizeResp(resp')
      /\ Failing(AuthorizeChecks(resp'.req)) # {})
     => (/\ resp'.status = BAD_REQUEST
         /\ \E i \in Failing(AuthorizeChecks(resp'.req)) :
              resp'.error = AuthorizeChecks(resp'.req)[i][1]
         /\ UNCHANGED <<tokenCache, timers, usedCodes, minted, issued>>)]_vars

C4_Witness ==
  /\ IsAuthorizeResp(resp)
  /\ Failing(AuthorizeChecks(resp.req)) = {4}
  /\ resp.error = "invalid_scope"
  /\ DOMAIN tokenCache # {}

\* C5: /authorize validation is fail-fast and ordered: the error returned is
\* that of the first failing check in the order client_id, nonce,
\* redirect_uri, scope, state, whatever combination of checks fails.
C5_AuthorizeOrder ==
  (IsAuthorizeResp(resp) /\ Failing(AuthorizeChecks(resp.req)) # {})
  => (resp.status = BAD_REQUEST /\ resp.error = FirstFailing(AuthorizeChecks(resp.req)))

C5_Witness ==
  /\ IsAuthorizeResp(resp)
  /\ Failing(AuthorizeChecks(resp.req)) = {2, 3, 5}
  /\ resp.error = "invalid_nonce"

\* C6: POST /token checks client_assertion_type, client_id, client_assertion,
\* code, grant_type and redirect_uri in this order and answers 400 with the
\* error of the first failing check; a request that fails a check does not
\* look up or remove a cache entry and schedules no deletion.
C6_TokenValidation ==
  [][(/\ resp' # resp
      /\ IsTokenResp(resp')
      /\ Failing(TokenChecks(resp'.req)) # {})
     => (/\ resp'.status = BAD_REQUEST
         /\ resp'.error = FirstFailing(TokenChecks(resp'.req))
         /\ resp'.lookups = 0
         /\ UNCHANGED <<tokenCache, timers, consumed>>)]_vars

C6_Witness ==
  /\ IsTokenResp(resp)
  /\ Failing(TokenChecks(resp.req)) = {4, 6}
  /\ resp.error = "invalid_code"
  /\ DOMAIN tokenCache # {}

\* C7: a POST /token that passes validation is answered, on a cache hit, 200
\* with token_type Bearer, expires_in 300 and exactly the tokens /authorize
\* stored under the presented code; for a code that was never issued, was
\* already consumed by an earlier exchange, or has expired it is answered
\* 400 invalid_auth_code.
C7_TokenResult ==
  (IsTokenResp(resp) /\ Failing(TokenChecks(resp.req)) = {})
  => /\ resp.status = OK
        => /\ resp.token_type = "Bearer"
           /\ resp.expires_in = 300
           /\ resp.access_token = issued[resp.req.code.v].tokenSet.accessToken
           /\ resp.id_token = issued[resp.req.code.v].tokenSet.idToken
     /\ (\/ ~MapHas(issued, resp.req.code.v)
         \/ resp.replay
         \/ resp.age > TimerDelay)
        => (resp.status = BAD_REQUEST /\ resp.error = "invalid_auth_code")

\* C8: while the feature flag is disabled every provider endpoint and the
\* stub-login page answer 404, no POST /token looks a code up, and the code
\* cache, the pending deletions, the issued codes and the count of minted
\* tokens stay as they were at start-up: empty.
C8_FlagGate ==
  ~flag =>
    /\ resp.method # "none" => (resp.status = NOT_FOUND /\ resp.error = "")
    /\ resp.method = "POST" => resp.lookups = 0
    /\ rpResp.route = "stub-login" => rpResp.status = NOT_FOUND
    /\ tokenCache = EmptyMap
    /\ timers = {}
    /\ usedCodes = {}
    /\ consumed = {}
    /\ minted = 0

C8_Witness ==
  /\ ~flag
  /\ resp.method = "GET" /\ resp.ep = "authorize" /\ resp.status = NOT_FOUND
  /\ Failing(AuthorizeChecks(resp.req)) = {}
  /\ rpResp.route = "stub-login" /\ rpResp.status = NOT_FOUND

\* C9: a successful /auth/callback leaves the session with AuthState made of
\* the access token and the ID-token and userinfo-token claims of the token
\* set, without LoginState and stub-login state, redirects to the returnUrl
\* stored in LoginState or else to /en on the request origin, and is the only
\* successful callback to have consumed its LoginState.
C9_CallbackSuccess ==
  (rpResp.route = "callback" /\ rpResp.status = FOUND)
  => /\ session.authState =
          [p |-> TRUE, accessToken |-> rpResp.tokenSet.accessToken,
           idTokenClaims |-> rpResp.tokenSet.idToken,
           userinfoTokenClaims |-> rpResp.tokenSet.userinfoToken]
     /\ ~session.loginState.p
     /\ ~session.stubloginState.p
     /\ rpResp.location = Nullish(rpResp.storedReturnUrl, UrlOf(<<"/", "en">>, Origin))
     /\ ~rpResp.reused

\* C10: a step in which /auth/callback fails (state mismatch, nonce mismatch,
\* failed decryption, non-2xx answer of the provider, no login state) on a
\* session without AuthState leaves the session without AuthState.
C10_NoAuthStateOnFailure ==
  [][(/\ rpResp'.route = "callback"
      /\ rpResp'.status # FOUND
      /\ ~session.authState.p)
     => ~session'.authState.p]_vars

C10_Witness ==
  /\ rpResp.route = "callback"
  /\ rpResp.status # FOUND
  /\ rpResp.message = "nonce mismatch"
  /\ session.loginState.p
  /\ ~session.authState.p

\* C11: while the last answer of /auth/callback is a failure of callback
\* handling (state mismatch, nonce mismatch, failed decryption, non-2xx
\* answer of the provider), the session holds no LoginState: the failed
\* callback has discarded it.
C11_LoginStateDiscarded ==
  (rpResp.route = "callback" /\ rpResp.status = 500) => ~session.loginState.p

\* C12: the session is in exactly one of Anonymous, LoginPending and
\* Authenticated: it never holds LoginState and AuthState at the same time.
C12_OneSessionState ==
  ~(session.loginState.p /\ session.authState.p)

\* C13: when requireAuth (in the protected layout loader or in
\* /auth/session-refresh) has asked the provider and the provider has
\* reported the session as no longer valid, the session is Anonymous: its
\* AuthState has been cleared.
C13_ForcedLogout ==
  (/\ rpResp.route \in {"layout", "session-refresh"}
   /\ rpResp.status = FOUND
   /\ rpResp.asked)
  => (~session.authState.p /\ ~session.loginState.p)

\* C14: /auth/logout on a session with AuthState deletes AuthState, LoginState
\* and the stub-login state and redirects to the provider's sign-out URL
\* carrying the ID token's sub and the lang parameter ('en' when the request
\* has none); on a session without AuthState it redirects to the fallback
\* logout URL.
C14_Logout ==
  [][(Answered /\ rpResp'.route = "logout")
     => /\ rpResp'.status = FOUND
        /\ IF session.authState.p
           THEN /\ session' = AnonymousSession
                /\ UrlBase(rpResp'.location) = AUTH_RAOIDC_LOGOUT_URL
                /\ SearchParamsGet(rpResp'.location, <<"sub">>)
                     = Some(<<session.authState.idTokenClaims.sub>>)
                /\ SearchParamsGet(rpResp'.location, <<"lang">>)
                     = Some(IF rpResp'.req.lang.p THEN rpResp'.req.lang.v ELSE <<"en">>)
           ELSE rpResp'.location = AUTH_RAOIDC_RASCL_LOGOUT_URL]_vars

C14_Witness ==
  /\ rpResp.route = "logout"
  /\ rpResp.location # AUTH_RAOIDC_RASCL_LOGOUT_URL
  /\ ~rpResp.req.lang.p
  /\ session = AnonymousSession
  /\ rpHist.consumedLogins # {}

\* C15: a route that calls requireAuth gets the session's AuthState back
\* exactly when the session holds AuthState and the provider's session
\* validation has answered true; otherwise requireAuth throws a redirect to
\* /auth/login?returnto=<path and query of the request> and hands out no
\* claims; the layout loader reads its claims from the AuthState returned.
C15_RequireAuth ==
  rpResp.route \in {"layout", "session-refresh"}
  => /\ rpResp.status = OK <=> (session.authState.p /\ rpResp.asked /\ rpResp.answer)
     /\ rpResp.status = OK
        => /\ rpResp.returned = session.authState
           /\ rpResp.route = "layout"
              => rpResp.body = session.authState.userinfoTokenClaims.sin
     /\ rpResp.status # OK
        => /\ rpResp.status = FOUND
           /\ rpResp.location =
                <<"/", "auth/login", "?", "returnto", "=">>
                  \o rpResp.req.pathname \o rpResp.req.search
           /\ "returned" \notin DOMAIN rpResp
           /\ "body" \notin DOMAIN rpResp
     /\ ~session.authState.p => ~rpResp.asked

C15_Witness ==
  /\ rpResp.route = "layout"
  /\ rpResp.status = FOUND
  /\ session.authState.p
  /\ rpResp.asked
  /\ ~rpResp.answer

\* C16: AuthState enters the session only in a step of a successful
\* /auth/callback whose LoginState was created by /auth/login, and never
\* while a logout has removed AuthState and no /auth/login has happened since.
C16_AuthStateOnlyAfterLogin ==
  [][(session'.authState.p /\ session'.authState # session.authState)
     => /\ rpResp'.route = "callback"
        /\ rpResp'.status = FOUND
        /\ \E q \in rpHist.authUrls : q.state = Some(rpResp'.loginState)
        /\ ~rpHist.loggedOut]_vars

\* the event the tests expect a call to push
ExpectedEvent(c) ==
  IF c.fn = "pushErrorEvent"
  THEN [event |-> "error", error |-> [name |-> ToString(c.arg)]]
  ELSE [event |-> "pageLoad", page |-> [url |-> UrlHost(c.arg) \o UrlPathname(c.arg)]]

\* C17 as stated: a call of pushErrorEvent or pushPageviewEvent pushes
\* nothing and emits one warning when window.adobeDataLayer is undefined, and
\* pushes exactly one event, the expected one, whenever it is defined.
C17_AnalyticsPush ==
  call.fn # "none"
  => IF ~call.before.adobeDataLayer.defined
     THEN /\ call.after.adobeDataLayer = call.before.adobeDataLayer
          /\ call.after.console =
               Append(call.before.console, [level |-> "warn", message |-> NotDefinedWarning])
     ELSE /\ call.after.console = call.before.console
          /\ call.after.adobeDataLayer.events =
               Append(call.before.adobeDataLayer.events, ExpectedEvent(call))

\* C17 amended: a call of pushErrorEvent or pushPageviewEvent pushes nothing
\* and emits one warning when window.adobeDataLayer is undefined; when it is
\* defined and has a push function the call pushes exactly one event, the
\* expected one, and emits no warning; when it is defined without a push
\* function the call changes nothing and emits no warning.
C17_AnalyticsPushIfPushable ==
  call.fn # "none"
  => IF ~call.before.adobeDataLayer.defined
     THEN /\ call.after.adobeDataLayer = call.before.adobeDataLayer
          /\ call.after.console =
               Append(call.before.console, [level |-> "warn", message |-> NotDefinedWarning])
     ELSE IF ~call.before.adobeDataLayer.push
     THEN call.after = call.before
     ELSE /\ call.after.console = call.before.console
          /\ call.after.adobeDataLayer.push
          /\ call.after.adobeDataLayer.events =
               Append(call.before.adobeDataLayer.events, ExpectedEvent(call))

C17_Witness ==
  /\ call.fn = "pushPageviewEvent"
  /\ call.arg = <<"https:", "/", "/", "www.example.com", "/", "about-us">>
  /\ call.before.console # <<>>
  /\ call.before.adobeDataLayer.defined
  /\ call.before.adobeDataLayer.events =
       <<[event |-> "error", error |-> [name |-> "404"]]>>
  /\ window = call.after
  /\ window.adobeDataLayer.events =
       <<[event |-> "error", error |-> [name |-> "404"]],
         [event |-> "pageLoad", page |-> [url |-> <<"www.example.com", "/", "about-us">>]]>>

\* C18: however the issuance-expiry timers, the deletion timers scheduled by
\* /token and the /token requests interleave, a deletion that finds no entry
\* leaves the cache as it is, an entry that has been removed from the cache
\* is not in it after any later step, and what the cache holds under a code
\* is what /authorize stored under it.
C18_DeleteIdempotent ==
  [][/\ \A c \in DOMAIN issued :
          c \notin DOMAIN tokenCache => c \notin DOMAIN tokenCache'
     /\ \A t \in timers \ timers' :
          t.code \notin DOMAIN tokenCache => tokenCache' = tokenCache
     /\ \A c \in DOMAIN tokenCache' :
          c \in DOMAIN issued' /\ tokenCache'[c] = issued'[c].tokenSet]_vars

C18_Witness ==
  /\ IsTokenResp(resp)
  /\ resp.status = OK
  /\ resp.age > 0
  /\ resp.req.code.v \notin DOMAIN tokenCache
  /\ \A t \in timers : t.code # resp.req.code.v
  /\ DOMAIN tokenCache # {}

Codes == {<<ToString(i)>> : i \in 1..MaxCodes}

\* C19: no entry is in the cache later than 30 seconds after /authorize
\* stored it; every entry, exchanged or not, is eventually removed; and once
\* /authorize has stopped the cache becomes empty and stays empty.
C19_EventuallyRemoved ==
  /\ [](\A c \in DOMAIN tokenCache : now <= issued[c].at + TimerDelay)
  /\ \A c \in Codes : (c \in DOMAIN tokenCache) ~> (c \notin DOMAIN tokenCache)
  /\ <>[](tokenCache = EmptyMap)

C19_Witness ==
  /\ tokenCache = EmptyMap
  /\ \E c \in DOMAIN issued : c \notin consumed /\ now = issued[c].at + TimerDelay
  /\ \E c \in DOMAIN issued : c \in consumed

\* C20 as stated: a step that changes the session's LoginState or AuthState
\* is a step of /auth/login, /auth/callback or /auth/logout; steps of
\* requireAuth's callers, of the stub-login page and of the provider's
\* endpoints change neither.
C20_SessionFrame ==
  [][(\/ session'.loginState # session.loginState
      \/ session'.authState # session.authState)
     => rpResp'.route \in {"login", "callback", "logout"}]_vars

\* C20 amended: a step that changes the session's LoginState or AuthState is
\* a step of /auth/login, /auth/callback or /auth/logout, or a step of the
\* stub-login page that is given a sin while stub login is enabled, which runs
\* the /auth/login loader and changes LoginState only; steps of requireAuth's
\* callers and of the provider's endpoints change neither.
C20_SessionFrameStubLogin ==
  [][(\/ session'.loginState # session.loginState
      \/ session'.authState # session.authState)
     => \/ rpResp'.route \in {"login", "callback", "logout"}
        \/ /\ rpResp'.route = "stub-login"
           /\ flag
           /\ Truthy(rpResp'.req.sin)
           /\ session'.authState = session.authState]_vars

C20_Witness ==
  /\ rpResp.route = "session-refresh"
  /\ rpResp.status = FOUND
  /\ rpResp.asked
  /\ session.authState.p
  /\ session.loginState.p
  /\ session.stubloginState.p
  /\ resp.method = "GET" /\ resp.ep = "validatesession" /\ resp.status = OK

\* the tokens the provider has minted that the state still shows: what
\* /authorize stored under each code, and the tokens of the last response
MintedTokens ==
  UNION {{issued[c].tokenSet.accessToken, issued[c].tokenSet.idToken} : c \in DOMAIN issued}
    \cup (IF resp.method = "GET" /\ resp.ep = "userinfo" /\ resp.status = OK
          THEN {resp.userinfo_token} ELSE {})

\* C21: every token the provider mints has exp = iat + 20 minutes and
\* nbf = iat - 30 seconds, hence nbf <= iat < exp, aud is the configured
\* client identifier and iss the configured issuer; iat is the second of the
\* request, and an ID token carries the nonce of the /authorize request that
\* produced it.
C21_TokenClaims ==
  /\ \A tok \in MintedTokens :
       /\ tok.claims.exp = tok.claims.iat + 1200
       /\ tok.claims.nbf = tok.claims.iat - 30
       /\ tok.claims.nbf <= tok.claims.iat
       /\ tok.claims.iat < tok.claims.exp
       /\ tok.claims.aud = AUTH_RAOIDC_CLIENT_ID
       /\ tok.claims.iss = AUTH_RAOIDC_ISSUER
  /\ \A c \in DOMAIN issued :
       /\ issued[c].tokenSet.accessToken.typ = "access"
       /\ issued[c].tokenSet.idToken.typ = "id"
       /\ issued[c].tokenSet.idToken.claims.iat * 1000 <= issued[c].at
       /\ issued[c].at < (issued[c].tokenSet.idToken.claims.iat + 1) * 1000
  /\ (IsAuthorizeResp(resp) /\ resp.status = FOUND)
     => /\ resp.minted = issued[resp.code].tokenSet
        /\ resp.minted.idToken.extra.nonce = resp.req.nonce.v

C21_Witness ==
  /\ resp.method = "GET" /\ resp.ep = "userinfo" /\ resp.status = OK
  /\ resp.userinfo_token.claims.iat = 30
  /\ resp.userinfo_token.claims.nbf = 0
  /\ resp.userinfo_token.claims.exp = 1230
  /\ \E c \in DOMAIN issued : issued[c].tokenSet.idToken.claims.iat = 15

\* C22: every access token is encrypted under the provider's own public key
\* and every ID token and userinfo token under the relying party's public
\* key, so the relying party's private key opens every ID and userinfo token
\* and no access token.
C22_KeyByPurpose ==
  \A tok \in MintedTokens :
    /\ tok.typ \in {"access", "id", "userinfo"}
    /\ tok.typ = "access"
       => (tok.encKey = "AUTH_SERVER_PUBLIC_KEY" /\ ~DecryptWithClientKey(tok).ok)
    /\ tok.typ \in {"id", "userinfo"}
       => /\ tok.encKey = "AUTH_CLIENT_PUBLIC_KEY"
          /\ DecryptWithClientKey(tok).ok
          /\ DecryptWithClientKey(tok).claims.iss = AUTH_RAOIDC_ISSUER

C22_Witness ==
  /\ \E a, b, c \in MintedTokens : a.typ = "access" /\ b.typ = "id" /\ c.typ = "userinfo"
  /\ now > 0

\* C23: while the provider is enabled, every GET /userinfo, with or without
\* an access token, is answered 200 with a userinfo token whose birthdate,
\* locale and sin claims are the query parameters that were supplied and
\* '2000-01-01', 'en-CA' and '00000000' for those that were not, and the
\* request leaves the code cache and its pending deletions unchanged.
C23_Userinfo ==
  [][(resp' # resp /\ resp'.method = "GET" /\ resp'.ep = "userinfo" /\ flag)
     => /\ resp'.status = OK
        /\ resp'.userinfo_token.typ = "userinfo"
        /\ resp'.userinfo_token.extra.birthdate =
             (IF resp'.req.birthdate.p THEN resp'.req.birthdate.v ELSE <<"2000-01-01">>)
        /\ resp'.userinfo_token.extra.locale =
             (IF resp'.req.locale.p THEN resp'.req.locale.v ELSE <<"en-CA">>)
        /\ resp'.userinfo_token.extra.sin =
             (IF resp'.req.sin.p THEN resp'.req.sin.v ELSE <<"00000000">>)
        /\ tokenCache' = tokenCache
        /\ timers' = timers]_vars

C23_Witness ==
  /\ resp.method = "GET" /\ resp.ep = "userinfo" /\ resp.status = OK
  /\ ~resp.req.authorization.p
  /\ resp.req.sin = Some(<<>>)
  /\ ~resp.req.birthdate.p
  /\ resp.userinfo_token.extra.sin = <<>>
  /\ resp.userinfo_token.extra.birthdate = <<"2000-01-01">>
  /\ DOMAIN tokenCache # {}

\* C24: every redirect of /authorize, for every request that passes
\* validation, with or without redirect_uri, targets a member of the
\* callback allow-list for the request's origin.
C24_RedirectAllowListed ==
  (IsAuthorizeResp(resp) /\ resp.status = FOUND)
  => UrlBase(resp.location) \in getAllowedCallbacks(Origin)

\* C25: the returnUrl that /auth/login stores in LoginState, and the target
\* of the redirect of a successful /auth/callback, have the origin of the
\* application, for every returnto that /auth/login accepts.
C25_ReturnUrlSameOrigin ==
  /\ (session.loginState.p /\ session.loginState.returnUrl.p)
     => UrlOrigin(session.loginState.returnUrl.v) = Origin
  /\ (rpResp.route = "callback" /\ rpResp.status = FOUND)
     => UrlOrigin(rpResp.location) = Origin

\* C26: each /auth/login replaces the stored LoginState with state, nonce and
\* verifier values that no earlier sign-in request had; a callback gets past
\* the state check only when it carries the state stored at that moment; and
\* AuthState is established only by a callback that carries the state of the
\* most recent /auth/login, the one the session holds when AuthState is set.
C26_LatestLoginWins ==
  [][/\ (rpResp' # rpResp /\ rpResp'.route = "login" /\ rpResp'.status = FOUND)
        => /\ session'.loginState.p
           /\ \A q \in rpHist.authUrls :
                /\ q.state.v # session'.loginState.state
                /\ q.nonce.v # session'.loginState.nonce
           /\ session.loginState.p
              => session'.loginState.codeVerifier # session.loginState.codeVerifier
     /\ \A r \in BagToSet(inflight') :
          CopiesIn(r, inflight') > CopiesIn(r, inflight)
          => (session.loginState.p /\ r.url.state = Some(session.loginState.state))
     /\ (session'.authState.p /\ session'.authState # session.authState)
        => /\ session.loginState.p
           /\ rpResp'.loginState = session.loginState.state]_vars

\* C27: when /auth/logout has answered, the session is Anonymous: it holds
\* no AuthState, no LoginState and no stub-login state, whatever it held
\* when logout was requested.
C27_LogoutLeavesAnonymous ==
  rpResp.route = "logout" => session = AnonymousSession

\* C28: every ID token that /authorize has minted carries every claim the
\* relying party's ID-token schema requires, and in every Authenticated
\* session the sid that requireAuth passes to session validation is defined.
C28_IdTokenSchema ==
  /\ \A c \in DOMAIN issued :
       RaoidcIdTokenSchema.required
         \subseteq DOMAIN DecryptWithClientKey(issued[c].tokenSet.idToken).claims
  /\ session.authState.p => SidOf(session.authState.idTokenClaims).p

\* C29: an /auth/callback request on a session with no LoginState is answered
\* 400 "Invalid login state", the token endpoint is not contacted (the
\* provider's state and its last response are as before) and the session is
\* unchanged: an existing AuthState is kept and none is created.
C29_CallbackWithoutLoginState ==
  [][(Callback /\ ~session.loginState.p)
       => /\ rpResp' = RpError("callback", BAD_REQUEST, "Invalid login state")
          /\ provVars' = provVars
          /\ inflight' = inflight
          /\ session' = session]_vars
\* the 400 has been given to a session that holds an AuthState
C29_Witness ==
  /\ rpResp = RpError("callback", BAD_REQUEST, "Invalid login state")
  /\ ~session.loginState.p
  /\ session.authState.p

\* C30: with the feature flag enabled, a GET for an endpoint name outside
\* the loader's table and a POST for one outside the action's table (GET
\* "token" and POST "authorize" among them) is answered 404 and leaves the
\* code cache and its timers unchanged; the names in the tables are never
\* answered 404.
C30_DispatchTable ==
  [][(flag /\ resp' # resp)
       => LET outside == \/ resp'.method = "GET" /\ resp'.ep \notin LoaderCases
                         \/ resp'.method = "POST" /\ resp'.ep \notin ActionCases
          IN /\ outside <=> resp'.status = NOT_FOUND
             /\ outside => tokenCache' = tokenCache /\ timers' = timers]_vars
\* GET "token" has been answered 404 while a code is cached, with the flag on
C30_Witness ==
  /\ flag
  /\ resp.method = "GET" /\ resp.ep = "token" /\ resp.status = NOT_FOUND
  /\ tokenCache # EmptyMap

====
